---------------------------- MODULE Spec2Model ----------------------------
(***************************************************************************)
(* Model of the two batch pipelines of the repository:                     *)
(*   - debug_challenge.py:  calculate_payments_modified                    *)
(*   - coding_challenge.py: process_applicant_transfers with               *)
(*       clean_and_validate_transfers / group_and_aggregate_transfers      *)
(*                                                                         *)
(* Python values are tagged records, text is a sequence of character codes *)
(* (so that upper(), strip(), float() and sorted() are computed, not       *)
(* assumed), and numbers are exact rationals n/d in lowest terms: the      *)
(* rounding of binary floating point and exponent notation are outside the *)
(* model, and float('inf') occurs only as the period of a transfer row.    *)
(***************************************************************************)
EXTENDS Integers, Sequences, FiniteSets, TLC

(***************************************************************************)
(* Bounds of the model: the size of a batch is the number of its           *)
(* applicants plus the number of their payments (or transfer rows).        *)
(***************************************************************************)
MaxPaymentBatch == 4

MaxTransferBatch == 4

(***************************************************************************)
(* Python values                                                           *)
(***************************************************************************)
None == [t |-> "None"]

Bool(b) == [t |-> "bool", b |-> b]

Str(s) == [t |-> "str", s |-> s]

List(l) == [t |-> "list", l |-> l]

\* a dict: m is a function from its keys to its values
Dict(m) == [t |-> "dict", m |-> m]

Abs(i) == IF i < 0 THEN -i ELSE i

RECURSIVE Gcd(_, _)
Gcd(a, b) == IF b = 0 THEN a ELSE Gcd(b, a % b)

\* the number n/d (d # 0), in lowest terms with a positive denominator
Num(n, d) ==
  LET g == Gcd(Abs(n), Abs(d))
      s == IF d < 0 THEN -1 ELSE 1
  IN  [t |-> "num", n |-> (s * n) \div g, d |-> (s * d) \div g]

Whole(i) == Num(i, 1)

\* float('nan'); also the missing cell of a data frame
NaN == [t |-> "nan"]

\* an int beyond the range of float, such as 10**400
Huge == [t |-> "huge"]

\* arithmetic on floats: nan is the result wherever an operand is nan, and
\* every comparison with nan is false
RatAdd(x, y) ==
  IF x.t = "nan" \/ y.t = "nan" THEN NaN ELSE Num(x.n * y.d + y.n * x.d, x.d * y.d)

RatMul(x, y) ==
  IF x.t = "nan" \/ y.t = "nan" THEN NaN ELSE Num(x.n * y.n, x.d * y.d)

\* x / y, y # 0
RatDiv(x, y) ==
  IF x.t = "nan" \/ y.t = "nan" THEN NaN ELSE Num(x.n * y.d, x.d * y.n)

RatLess(x, y) == x.t = "num" /\ y.t = "num" /\ x.n * y.d < y.n * x.d

RatLeq(x, y) == x.t = "num" /\ y.t = "num" /\ x.n * y.d <= y.n * x.d

(***************************************************************************)
(* Text: sequences of character codes                                      *)
(***************************************************************************)
\* str.isspace for the codes used: tab, newline, vt, ff, cr, space
IsSpace(c) == c \in {9, 10, 11, 12, 13, 32}

IsDigit(c) == c \in 48..57

UpperChar(c) == IF c \in 97..122 THEN c - 32 ELSE c

Upper(s) == [i \in 1..Len(s) |-> UpperChar(s[i])]

RECURSIVE LStrip(_)
LStrip(s) ==
  IF s # <<>> /\ IsSpace(Head(s)) THEN LStrip(Tail(s)) ELSE s

RECURSIVE RStrip(_)
RStrip(s) ==
  IF s # <<>> /\ IsSpace(s[Len(s)]) THEN RStrip(SubSeq(s, 1, Len(s) - 1)) ELSE s

Strip(s) == RStrip(LStrip(s))

\* lexicographic order of code points: Python's < on str
RECURSIVE StrLess(_, _)
StrLess(a, b) ==
  IF b = <<>> THEN FALSE
  ELSE IF a = <<>> THEN TRUE
  ELSE IF Head(a) # Head(b) THEN Head(a) < Head(b)
  ELSE StrLess(Tail(a), Tail(b))

RECURSIVE Digits(_)
\* the value of a non-empty sequence of digit codes
Digits(s) ==
  IF s = <<>> THEN 0 ELSE 10 * Digits(SubSeq(s, 1, Len(s) - 1)) + (s[Len(s)] - 48)

RECURSIVE Pow10(_)
Pow10(k) == IF k = 0 THEN 1 ELSE 10 * Pow10(k - 1)

AllDigits(s) == \A i \in 1..Len(s) : IsDigit(s[i])

\* the position of the first '.' of s, or 0
DotAt(s) ==
  IF \E i \in 1..Len(s) : s[i] = 46
  THEN CHOOSE i \in 1..Len(s) : s[i] = 46 /\ \A j \in 1..(i - 1) : s[j] # 46
  ELSE 0

\* float(str) / pd.to_numeric(str): surrounding blanks, an optional sign,
\* digits with an optional decimal point; anything else does not parse
\* (the model leaves out exponents and inf), and 'nan' in any case gives
\* nan.  Result: a number, nan or None.
ParseNumber(raw) ==
  LET s    == Strip(raw)
      neg  == s # <<>> /\ Head(s) = 45
      sgn  == s # <<>> /\ Head(s) \in {43, 45}
      body == IF sgn THEN Tail(s) ELSE s
      dot  == DotAt(body)
      ip   == IF dot = 0 THEN body ELSE SubSeq(body, 1, dot - 1)
      fp   == IF dot = 0 THEN <<>> ELSE SubSeq(body, dot + 1, Len(body))
  IN  IF Upper(body) = <<78, 65, 78>> THEN NaN
      ELSE IF /\ AllDigits(ip) /\ AllDigits(fp)
              /\ Len(ip) + Len(fp) > 0
      THEN LET v == Num(Digits(ip) * Pow10(Len(fp)) + Digits(fp), Pow10(Len(fp)))
           IN  IF neg THEN Num(-v.n, v.d) ELSE v
      ELSE None

(***************************************************************************)
(* Python built-ins used by both pipelines                                 *)
(***************************************************************************)
\* a key that a dict does not carry
Absent == [t |-> "absent"]

\* dict.get(key, default) on the function m of a dict
Get(m, key, default) == IF key \in DOMAIN m THEN m[key] ELSE default

\* bool(v)
Truthy(v) ==
  CASE v.t = "None" -> FALSE
    [] v.t = "bool" -> v.b
    [] v.t = "num"  -> v.n # 0
    [] v.t = "nan"  -> TRUE
    [] v.t = "huge" -> TRUE
    [] v.t = "str"  -> v.s # <<>>
    [] v.t = "list" -> v.l # <<>>
    [] v.t = "dict" -> DOMAIN v.m # {}

\* float(v): the number, or None where Python raises TypeError, ValueError or
\* (for an int beyond the range of float) OverflowError
Float(v) ==
  CASE v.t = "num"  -> v
    [] v.t = "nan"  -> v
    [] v.t = "bool" -> IF v.b THEN Whole(1) ELSE Whole(0)
    [] v.t = "str"  -> ParseNumber(v.s)
    [] OTHER        -> None

(***************************************************************************)
(* debug_challenge.py: calculate_payments_modified                         *)
(***************************************************************************)
VARIABLES
  applicants,           \* the argument of the call in progress
  pc,                   \* where the call is
  applicant_idx,        \* applicants handled so far (enumerate index)
  payment_idx,          \* payments of the current applicant handled so far
  currency,             \* the current applicant's normalized currency
  payment_by_currency,  \* the running totals: currency -> number
  processed_applicants, \* the transfer pipeline's output list
  cleaned_df,           \* the transfer pipeline's last cleaned frame
  result                \* the returned value, None until the call returns

vars == <<applicants, pc, applicant_idx, payment_idx, currency,
          payment_by_currency, processed_applicants, cleaned_df, result>>

GEL == <<71, 69, 76>>

\* line 70: whether .upper() exists on the value that get('currency', 'GEL') gives
CurrencyIsText(applicant) == Get(applicant, "currency", Str(GEL)).t = "str"

\* mutant: the currency is uppercased but not trimmed
NormalizeCurrency_NoStrip(applicant) ==
  LET c == Upper(Get(applicant, "currency", Str(GEL)).s)
  IN  IF c = <<>> THEN GEL ELSE c

\* lines 70-73, for an applicant whose currency is text
NormalizeCurrency(applicant) ==
  LET c == Strip(Upper(Get(applicant, "currency", Str(GEL)).s))
  IN  IF c = <<>> THEN GEL ELSE c

\* mutant: the active flag is not looked at
IsActive_IgnoreFlag(m) == TRUE

\* lines 83-89: the payment is processed (not skipped as inactive)
IsActive(m) ==
  LET active == Get(m, "active", Bool(TRUE))
  IN  IF active.t = "str" /\ active.s = <<>> THEN TRUE ELSE Truthy(active)

\* mutant: a falsy incomeshare is replaced by the default
Incomeshare_FalsyDefault(m) ==
  LET g == Get(m, "incomeshare", Whole(1))
      v == Float(IF Truthy(g) THEN g ELSE Whole(1))
  IN  IF v.t = "None" THEN None
      ELSE IF RatLess(v, Whole(0)) \/ RatLess(Whole(1), v) THEN None
      ELSE v

\* lines 92-99: the incomeshare, or None where the payment is skipped
Incomeshare(m) ==
  LET v == Float(Get(m, "incomeshare", Whole(1)))
  IN  IF v.t = "None" THEN None
      ELSE IF RatLess(v, Whole(0)) \/ RatLess(Whole(1), v) THEN None
      ELSE v

\* mutant: a base of 0 is rejected, a negative base is not
Base_ZeroOnly(m) ==
  LET base_value == Get(m, "base", None)
      v == Float(base_value)
  IN  IF base_value.t = "None" THEN None
      ELSE IF v.t = "None" THEN None
      ELSE IF v.t = "num" /\ v.n = 0 THEN None
      ELSE v

\* lines 102-115: the base, or None where the payment is skipped
Base(m) ==
  LET base_value == Get(m, "base", None)
      v == Float(base_value)
  IN  IF base_value.t = "None" THEN None
      ELSE IF v.t = "None" THEN None
      ELSE IF RatLeq(v, Whole(0)) THEN None
      ELSE v

\* lines 118-125: the amount, or None where the payment is skipped
Amount(m) ==
  LET v == Float(Get(m, "amount", Whole(0)))
  IN  IF v.t = "None" THEN None
      ELSE IF RatLess(v, Whole(0)) THEN None
      ELSE v

\* lines 128-129
CalculatedAmount(incomeshare, base, amount) ==
  RatMul(amount, RatDiv(incomeshare, base))

\* mutant: the amount replaces the total of the currency
AddToTotal_Overwrite(totals, cur, calculated_amount) ==
  [c \in DOMAIN totals \cup {cur} |-> IF c = cur THEN calculated_amount ELSE totals[c]]

\* line 132
AddToTotal(totals, cur, calculated_amount) ==
  [c \in DOMAIN totals \cup {cur} |->
     IF c = cur
     THEN RatAdd(IF cur \in DOMAIN totals THEN totals[cur] ELSE Whole(0),
                 calculated_amount)
     ELSE totals[c]]

\* lines 82-136: one iteration of the payment loop; a payment that is not a
\* mapping raises AttributeError at line 83, and a value beyond the range of
\* float raises OverflowError, both caught at line 134
ProcessPayment(totals, cur, payment) ==
  IF payment.t # "dict" THEN totals
  ELSE IF ~IsActive(payment.m) THEN totals
  ELSE IF Incomeshare(payment.m).t = "None" THEN totals
  ELSE IF Base(payment.m).t = "None" THEN totals
  ELSE IF Amount(payment.m).t = "None" THEN totals
  ELSE AddToTotal(totals, cur,
         CalculatedAmount(Incomeshare(payment.m), Base(payment.m), Amount(payment.m)))

\* line 76: the payments value of the applicant being handled
Payments(applicant) == Get(applicant, "payments", List(<<>>))

\* lines 61-66
PayEnter ==
  /\ pc = "pay_call"
  /\ IF applicants = <<>>
     THEN /\ result' = Dict(<<>>)
          /\ pc' = "done"
     ELSE /\ result' = result
          /\ pc' = "pay_applicant"
  /\ payment_by_currency' = <<>>
  /\ applicant_idx' = 0
  /\ UNCHANGED <<applicants, payment_idx, currency, processed_applicants, cleaned_df>>

\* lines 68-79: the head of the applicant loop.  applicant.get(...).upper() and
\* enumerate(payments) stand outside every try block: a currency that is not
\* text, or a truthy payments value that cannot be iterated, ends the call
\* with an exception.
PayApplicant ==
  /\ pc = "pay_applicant"
  /\ applicant_idx < Len(applicants)
  /\ LET applicant == applicants[applicant_idx + 1]
     IN  /\ applicant_idx' = applicant_idx + 1
         /\ IF ~CurrencyIsText(applicant)
            THEN /\ pc' = "raised"
                 /\ UNCHANGED <<currency, payment_idx>>
            ELSE /\ currency' = NormalizeCurrency(applicant)
                 /\ IF ~Truthy(Payments(applicant))
                    THEN /\ pc' = "pay_applicant"
                         /\ UNCHANGED payment_idx
                    ELSE IF Payments(applicant).t # "list"
                    THEN /\ pc' = "raised"
                         /\ UNCHANGED payment_idx
                    ELSE /\ pc' = "pay_payment"
                         /\ payment_idx' = 0
  /\ UNCHANGED <<applicants, payment_by_currency, processed_applicants,
                 cleaned_df, result>>

\* lines 81-136: one payment of the current applicant; after the last one the
\* applicant loop goes on
PayPayment ==
  /\ pc = "pay_payment"
  /\ LET payments == Payments(applicants[applicant_idx]).l
     IN  /\ payment_idx < Len(payments)
         /\ payment_by_currency' =
              ProcessPayment(payment_by_currency, currency, payments[payment_idx + 1])
         /\ payment_idx' = payment_idx + 1
         /\ pc' = IF payment_idx + 1 = Len(payments) THEN "pay_applicant" ELSE pc
  /\ UNCHANGED <<applicants, applicant_idx, currency, processed_applicants,
                 cleaned_df, result>>

\* line 138
PayReturn ==
  /\ pc = "pay_applicant"
  /\ applicant_idx = Len(applicants)
  /\ result' = Dict(payment_by_currency)
  /\ pc' = "done"
  /\ UNCHANGED <<applicants, applicant_idx, payment_idx, currency,
                 payment_by_currency, processed_applicants, cleaned_df>>

NextPay == PayEnter \/ PayApplicant \/ PayPayment \/ PayReturn

(***************************************************************************)
(* Inputs of the payment calculator                                        *)
(***************************************************************************)
\* a dict entry, or nothing where the key is absent
Entry(key, v) == IF v.t = "absent" THEN <<>> ELSE key :> v

PayApplicantOf(cur, pays) == Entry("currency", cur) @@ Entry("payments", pays)

PaymentOf(active, incomeshare, amount, base) ==
  Dict(Entry("active", active) @@ Entry("incomeshare", incomeshare)
       @@ Entry("amount", amount) @@ Entry("base", base))

\* the applicants of size c (1 + the number of payments) over the given
\* currencies and payments; odd: payments values that are not a list
PayApplicantsOfSize(curs, pool, odd, c) ==
  {PayApplicantOf(cur, pays) :
     cur \in curs,
     pays \in IF c = 1 THEN odd \cup {List(<<>>)}
              ELSE {List(l) : l \in [1..(c - 1) -> pool]}}

\* the sequences of positive sizes that sum to at most size
RECURSIVE Shapes(_)
Shapes(size) ==
  {<<>>} \cup UNION {{<<c>> \o sh : sh \in Shapes(size - c)} : c \in 1..size}

\* the batches of a shape: its i-th applicant is drawn from bySize[shape[i]]
RECURSIVE BatchesOfShape(_, _)
BatchesOfShape(bySize, shape) ==
  IF shape = <<>> THEN {<<>>}
  ELSE LET rests == BatchesOfShape(bySize, Tail(shape))
       IN  {<<a>> \o rest : a \in bySize[Head(shape)], rest \in rests}

\* the applicant lists of the payment calculator: every list whose size
\* (applicants plus payments) is at most MaxPaymentBatch
IsPayBatch(batch, curs, pool, odd) ==
  \E shape \in Shapes(MaxPaymentBatch) :
    batch \in BatchesOfShape(
                [c \in 1..MaxPaymentBatch |-> PayApplicantsOfSize(curs, pool, odd, c)],
                shape)

InitPay(curs, pool, odd) ==
  /\ IsPayBatch(applicants, curs, pool, odd)
  /\ pc = "pay_call"
  /\ applicant_idx = 0
  /\ payment_idx = 0
  /\ currency = <<>>
  /\ payment_by_currency = <<>>
  /\ processed_applicants = <<>>
  /\ cleaned_df = None
  /\ result = None

\* text used by the inputs
USD == <<85, 83, 68>>

usd == <<117, 115, 100>>

USD_padded == <<85, 83, 68, 32, 32>>

gel_padded == <<32, 103, 101, 108>>

Blank == <<32>>

Words == <<111, 110, 101>>

\* the payments of the module's own tests (src/debug_challenge.py, __main__)
Pay_valid == PaymentOf(Bool(TRUE), Num(1, 5), Whole(1000), Num(1, 2))

Pay_inactive == PaymentOf(Bool(FALSE), Num(3, 10), Whole(500), Num(2, 5))

Pay_zero_share == PaymentOf(Bool(TRUE), Whole(0), Whole(100), Num(1, 2))

Pay_no_share == PaymentOf(Bool(TRUE), Absent, Whole(100), Num(1, 2))

Pay_zero_base == PaymentOf(Bool(TRUE), Num(1, 5), Whole(100), Whole(0))

Pay_big_share == PaymentOf(Bool(TRUE), Num(6, 5), Whole(2000), Num(1, 2))

Pay_no_active == PaymentOf(Absent, Num(1, 5), Whole(1000), Num(1, 2))

\* '0.2', '2000', '0.5'
Pay_strings ==
  PaymentOf(Bool(TRUE), Str(<<48, 46, 50>>), Str(<<50, 48, 48, 48>>), Str(<<48, 46, 53>>))

Pay_blank_active == PaymentOf(Str(<<>>), Num(1, 5), Whole(2000), Num(1, 2))

Pay_negative_amount == PaymentOf(Bool(TRUE), Num(1, 5), Whole(-2000), Num(1, 2))

Pay_negative_base == PaymentOf(Bool(TRUE), Num(1, 5), Whole(100), Num(-1, 2))

Pay_words == PaymentOf(Bool(TRUE), Str(Words), Str(Words), Num(1, 5))

Pay_only_active == PaymentOf(Bool(TRUE), Absent, Absent, Absent)

Pay_no_amount == PaymentOf(Bool(TRUE), Num(1, 5), Absent, Num(1, 2))

\* amount 'nan' as text: float('nan')
Pay_nan_amount == PaymentOf(Bool(TRUE), Num(1, 5), Str(<<110, 97, 110>>), Num(1, 2))

\* incomeshare '0' as text
Pay_zero_share_text == PaymentOf(Bool(TRUE), Str(<<48>>), Whole(100), Num(1, 2))

(***************************************************************************)
(* C1: calculate_payments_modified never raises across applicant           *)
(* boundaries                                                              *)
(***************************************************************************)
SpecPayErrors ==
  /\ InitPay({Str(USD), None, Absent}, {Pay_valid, None}, {None, Absent, Whole(5)})
  /\ [][NextPay]_vars

\* C1: for every applicant list, also one with a currency that is null or
\* not text or with a payments value that is malformed, the call never ends
\* with an exception, and when it returns every applicant has been visited.
C1_NeverRaises ==
  /\ pc # "raised"
  /\ pc = "done" => applicant_idx = Len(applicants)

(***************************************************************************)
(* C4: the returned map equals the reference sum                           *)
(***************************************************************************)
PayTotalsPool ==
  {Pay_no_active, Pay_no_share, Pay_blank_active, Pay_strings, Pay_no_amount,
   Pay_inactive, Pay_big_share, Pay_words, Pay_zero_base, Pay_negative_base,
   Pay_only_active, Pay_negative_amount, Pay_nan_amount}

SpecPayTotals ==
  /\ InitPay({Str(usd), Absent}, PayTotalsPool, {None, Absent})
  /\ [][NextPay]_vars

\* the checks of the claim, read off its text
C4_ActiveOk(m) ==
  \/ "active" \notin DOMAIN m
  \/ Truthy(m.active)
  \/ m.active.t = "str" /\ m.active.s = <<>>

C4_Share(m) == IF "incomeshare" \in DOMAIN m THEN Float(m.incomeshare) ELSE Whole(1)

C4_ShareOk(m) ==
  /\ C4_Share(m).t = "num"
  /\ C4_Share(m).n >= 0
  /\ C4_Share(m).n <= C4_Share(m).d

C4_BaseOk(m) ==
  /\ "base" \in DOMAIN m
  /\ Float(m.base).t = "num"
  /\ Float(m.base).n > 0

C4_Amount(m) == IF "amount" \in DOMAIN m THEN Float(m.amount) ELSE Whole(0)

C4_AmountOk(m) == C4_Amount(m).t = "num" /\ C4_Amount(m).n >= 0

C4_Passes(p) ==
  /\ p.t = "dict"
  /\ C4_ActiveOk(p.m) /\ C4_ShareOk(p.m) /\ C4_BaseOk(p.m) /\ C4_AmountOk(p.m)

\* amount * incomeshare / base
C4_Contribution(p) ==
  Num(C4_Amount(p.m).n * C4_Share(p.m).n * Float(p.m.base).d,
      C4_Amount(p.m).d * C4_Share(p.m).d * Float(p.m.base).n)

C4_PaymentsOf(applicant) ==
  IF "payments" \in DOMAIN applicant /\ applicant.payments.t = "list"
  THEN applicant.payments.l ELSE <<>>

\* the passing payments (applicant, position) under the currency c
C4_Passing(c) ==
  {ij \in UNION {{<<i, j>> : j \in 1..Len(C4_PaymentsOf(applicants[i]))} :
                   i \in 1..Len(applicants)} :
     /\ NormalizeCurrency(applicants[ij[1]]) = c
     /\ C4_Passes(C4_PaymentsOf(applicants[ij[1]])[ij[2]])}

RECURSIVE C4_Sum(_)
C4_Sum(S) ==
  IF S = {} THEN Whole(0)
  ELSE LET ij == CHOOSE x \in S : TRUE
       IN  RatAdd(C4_Contribution(C4_PaymentsOf(applicants[ij[1]])[ij[2]]),
                  C4_Sum(S \ {ij}))

C4_Keys ==
  {c \in {NormalizeCurrency(applicants[i]) : i \in 1..Len(applicants)} :
     C4_Passing(c) # {}}

\* C4: the returned map has exactly the currencies with a passing payment,
\* each with the sum of amount * incomeshare / base over its passing payments.
C4_TotalsEqualReference ==
  pc = "done" =>
    /\ result.t = "dict"
    /\ DOMAIN result.m = C4_Keys
    /\ \A c \in C4_Keys : result.m[c] = C4_Sum(C4_Passing(c))

\* no incomeshare, base or amount of the call is nan
C4_NoNan ==
  \A i \in 1..Len(applicants) :
    \A j \in 1..Len(C4_PaymentsOf(applicants[i])) :
      LET p == C4_PaymentsOf(applicants[i])[j]
      IN  p.t = "dict" =>
            \A key \in {"incomeshare", "base", "amount"} \cap DOMAIN p.m :
              Float(p.m[key]).t # "nan"

\* the totals equal the reference in every call without a nan
C4_TotalsEqualReferenceWithoutNan == C4_NoNan => C4_TotalsEqualReference

\* two applicants share a currency, each with a passing payment, and the
\* returned total is their sum
C4_Witness ==
  /\ pc = "done"
  /\ \E c \in C4_Keys :
       /\ \E x, y \in C4_Passing(c) : x[1] # y[1]
       /\ result.m[c] = C4_Sum(C4_Passing(c))

\* a payment is skipped beside a passing sibling
C4_WitnessSkippedSibling ==
  /\ pc = "done"
  /\ \E i \in 1..Len(applicants) :
       \E j, k \in 1..Len(C4_PaymentsOf(applicants[i])) :
         /\ C4_Passes(C4_PaymentsOf(applicants[i])[j])
         /\ ~C4_Passes(C4_PaymentsOf(applicants[i])[k])

(***************************************************************************)
(* C5: an explicit incomeshare of 0 is not an absent incomeshare           *)
(***************************************************************************)
SpecPayShare ==
  /\ InitPay({Str(USD), Absent},
             {Pay_zero_share, Pay_zero_share_text, Pay_no_share, Pay_valid}, {None})
  /\ [][NextPay]_vars

C5_ExplicitZero(m) ==
  /\ "incomeshare" \in DOMAIN m
  /\ Float(m.incomeshare).t = "num"
  /\ Float(m.incomeshare).n = 0

C5_OtherwiseValid(p) ==
  p.t = "dict" /\ C4_ActiveOk(p.m) /\ C4_BaseOk(p.m) /\ C4_AmountOk(p.m)

C5_Total(totals) == IF currency \in DOMAIN totals THEN totals[currency] ELSE Whole(0)

SpecPayCurrency ==
  /\ InitPay({Str(usd), Str(USD_padded), Str(gel_padded), Str(Blank), Absent},
             {Pay_valid, Pay_inactive}, {})
  /\ [][NextPay]_vars

C6_IsBlank(s) == \A i \in 1..Len(s) : IsSpace(s[i])

C6_IsLower(c) == c \in 97..122

\* k has no surrounding blanks, no lowercase letter, and is not empty
C6_Normalized(k) ==
  /\ k # <<>>
  /\ ~IsSpace(k[1]) /\ ~IsSpace(k[Len(k)])
  /\ \A i \in 1..Len(k) : ~C6_IsLower(k[i])

\* k is raw without its surrounding blanks, letter for letter up to case
C6_IsNormalOf(k, raw) ==
  /\ C6_Normalized(k)
  /\ \E l \in 0..Len(raw) :
       /\ l + Len(k) <= Len(raw)
       /\ \A i \in 1..Len(raw) :
            IF i <= l \/ i > l + Len(k)
            THEN IsSpace(raw[i])
            ELSE raw[i] = k[i - l] \/ (C6_IsLower(raw[i]) /\ raw[i] - 32 = k[i - l])

\* k is the key the claim gives to the applicant
C6_IsKeyOf(k, applicant) ==
  IF "currency" \notin DOMAIN applicant \/ C6_IsBlank(applicant.currency.s)
  THEN k = GEL
  ELSE C6_IsNormalOf(k, applicant.currency.s)

C6_HasPassingPayment(applicant) ==
  \E j \in 1..Len(C4_PaymentsOf(applicant)) : C4_Passes(C4_PaymentsOf(applicant)[j])

\* C6: the key of an applicant is its trimmed, uppercased currency, or GEL when
\* the currency is absent or blank, whatever its payments are; every key of
\* the totals is normalized; applicants whose currencies differ only by case
\* or surrounding blanks accumulate under one key.
C6_CurrencyNormalized ==
  /\ pc \in {"pay_applicant", "pay_payment", "done"} /\ applicant_idx >= 1 =>
       C6_IsKeyOf(currency, applicants[applicant_idx])
  /\ \A k \in DOMAIN payment_by_currency : C6_Normalized(k)
  /\ pc = "done" =>
       \A i \in 1..Len(applicants) :
         C6_HasPassingPayment(applicants[i]) =>
           /\ \E k \in DOMAIN result.m : C6_IsKeyOf(k, applicants[i])
           /\ \A k1, k2 \in DOMAIN result.m :
                C6_IsKeyOf(k1, applicants[i]) /\ C6_IsKeyOf(k2, applicants[i]) => k1 = k2

\* 'usd' and 'USD  ' both contributed and the result has the single key 'USD'
C6_Witness ==
  /\ pc = "done"
  /\ Len(applicants) = 2
  /\ "currency" \in DOMAIN applicants[1] /\ applicants[1].currency = Str(usd)
  /\ "currency" \in DOMAIN applicants[2] /\ applicants[2].currency = Str(USD_padded)
  /\ C6_HasPassingPayment(applicants[1]) /\ C6_HasPassingPayment(applicants[2])
  /\ DOMAIN result.m = {USD}

\* an applicant without a currency key contributed under 'GEL'
C6_WitnessDefault ==
  /\ pc = "done"
  /\ \E i \in 1..Len(applicants) :
       "currency" \notin DOMAIN applicants[i] /\ C6_HasPassingPayment(applicants[i])
  /\ GEL \in DOMAIN result.m

(***************************************************************************)
(* coding_challenge.py: data frames                                        *)
(*                                                                         *)
(* A frame is its set of column names and its rows in order; a row maps    *)
(* each column to a cell, and a missing cell is NaN.                       *)
(***************************************************************************)
\* float('inf')
Inf == [t |-> "inf"]

Frame(columns, rows) == [t |-> "frame", columns |-> columns, rows |-> rows]

\* an exception that leaves the function
Raise == [t |-> "raise"]

\* pd.DataFrame(list of dicts): the columns are the keys of all the rows; a
\* key that a row lacks, and a None, is a missing cell
DataFrame(l) ==
  LET columns == UNION {DOMAIN l[i].m : i \in 1..Len(l)}
  IN  Frame(columns,
            [i \in 1..Len(l) |->
               [c \in columns |->
                  IF c \in DOMAIN l[i].m /\ l[i].m[c].t # "None"
                  THEN l[i].m[c] ELSE NaN]])

\* df.empty
Empty(df) == df.rows = <<>> \/ df.columns = {}

\* df.replace(r'^\s*$', np.nan, regex=True)
ReplaceBlank(df) ==
  Frame(df.columns,
        [i \in 1..Len(df.rows) |->
           [c \in df.columns |->
              LET cell == df.rows[i][c]
              IN  IF cell.t = "str" /\ \A k \in 1..Len(cell.s) : IsSpace(cell.s[k])
                  THEN NaN ELSE cell]])

\* df.dropna(subset=...), for a subset of the frame's columns
DropNa(df, subset) ==
  LET Kept(row) == \A c \in subset : row[c].t # "nan"
  IN  Frame(df.columns, SelectSeq(df.rows, Kept))

\* df[column] = df[column].fillna(value)
FillNa(df, column, value) ==
  Frame(df.columns,
        [i \in 1..Len(df.rows) |->
           [c \in df.columns |->
              IF c = column /\ df.rows[i][c].t = "nan" THEN value ELSE df.rows[i][c]]])

\* .astype(str).str.upper().str.strip() on a cell of text
UpperStrip(cell) == Str(Strip(Upper(cell.s)))

\* pd.to_numeric(errors='coerce') on a cell
ToNumeric(cell) ==
  CASE cell.t = "num" -> cell
    [] cell.t = "inf" -> cell
    [] cell.t = "str" -> (IF ParseNumber(cell.s).t = "num" THEN ParseNumber(cell.s) ELSE NaN)
    [] OTHER          -> NaN

\* df.drop_duplicates(): a row equal to an earlier row in every column goes
RECURSIVE DropDuplicateRows(_)
DropDuplicateRows(rows) ==
  IF rows = <<>> THEN <<>>
  ELSE LET init == DropDuplicateRows(SubSeq(rows, 1, Len(rows) - 1))
           last == rows[Len(rows)]
       IN  IF \E i \in 1..(Len(rows) - 1) : rows[i] = last
           THEN init ELSE Append(init, last)

DropDuplicates(df) == Frame(df.columns, DropDuplicateRows(df.rows))

\* .astype(int) on a number: truncation toward zero
AsInt(cell) ==
  Whole(IF cell.n >= 0 THEN cell.n \div cell.d ELSE -((-cell.n) \div cell.d))

(***************************************************************************)
(* coding_challenge.py: clean_and_validate_transfers                       *)
(***************************************************************************)
Unknown == <<85, 110, 107, 110, 111, 119, 110>>

\* lines 78-81
ConvertTypes(df) ==
  Frame(df.columns,
        [i \in 1..Len(df.rows) |->
           [c \in df.columns |->
              CASE c \in {"country", "source"}   -> UpperStrip(df.rows[i][c])
                [] c \in {"period", "amountgel"} -> ToNumeric(df.rows[i][c])
                [] OTHER                         -> df.rows[i][c]]])

\* cell > 0
Positive(cell) == cell.t = "inf" \/ cell.n > 0

\* lines 90-93
FilterPositive(df) ==
  LET Kept(row) == Positive(row["period"]) /\ Positive(row["amountgel"])
  IN  Frame(df.columns, SelectSeq(df.rows, Kept))

\* lines 100-101 (float is the identity on exact numbers)
FinalizeTypes(df) ==
  Frame(df.columns,
        [i \in 1..Len(df.rows) |->
           [c \in df.columns |->
              IF c = "period" THEN AsInt(df.rows[i][c]) ELSE df.rows[i][c]]])

\* lines 84-113, after the conversion of the types: astype(int) raises on a
\* period that is not finite, and the except clause of line 111 returns None
ValidateConverted(df) ==
  LET kept == FilterPositive(DropDuplicates(DropNa(df, {"period", "amountgel"})))
  IN  IF Empty(kept) THEN None
      ELSE IF \E i \in 1..Len(kept.rows) : kept.rows[i]["period"].t = "inf" THEN None
      ELSE FinalizeTypes(kept)

\* lines 58-113: the cleaned frame, None, or Raise.  The column lookups of
\* lines 68 and 70 stand before the try block: a frame without one of the
\* four columns raises KeyError to the caller.
clean_and_validate_transfers(df) ==
  IF Empty(df) THEN None
  ELSE IF ~({"country", "period", "amountgel"} \subseteq df.columns) THEN Raise
  ELSE IF "source" \notin df.columns THEN Raise
  ELSE LET present == FillNa(DropNa(ReplaceBlank(df), {"country", "period", "amountgel"}),
                             "source", Str(Unknown))
       IN  IF Empty(present) THEN None
           ELSE ValidateConverted(ConvertTypes(present))

(***************************************************************************)
(* coding_challenge.py: group_and_aggregate_transfers                      *)
(***************************************************************************)
\* Series.unique(): the values in order of first appearance
RECURSIVE UniqueSeq(_)
UniqueSeq(q) ==
  IF q = <<>> THEN <<>>
  ELSE LET init == UniqueSeq(SubSeq(q, 1, Len(q) - 1))
       IN  IF \E i \in 1..(Len(q) - 1) : q[i] = q[Len(q)]
           THEN init ELSE Append(init, q[Len(q)])

\* insertion of a text into a sorted sequence of texts
RECURSIVE InsertSorted(_, _)
InsertSorted(q, x) ==
  IF q = <<>> THEN <<x>>
  ELSE IF StrLess(x, Head(q)) THEN <<x>> \o q
  ELSE <<Head(q)>> \o InsertSorted(Tail(q), x)

\* sorted(texts)
RECURSIVE Sorted(_)
Sorted(q) ==
  IF q = <<>> THEN <<>> ELSE InsertSorted(Sorted(SubSeq(q, 1, Len(q) - 1)), q[Len(q)])

\* '/'.join(texts)
RECURSIVE JoinSlash(_)
JoinSlash(q) ==
  IF q = <<>> THEN <<>>
  ELSE IF Len(q) = 1 THEN q[1]
  ELSE q[1] \o <<47>> \o JoinSlash(Tail(q))

\* mutant: the sources are sorted and joined, repeated values kept
join_unique_sources_NotUnique(sources) == Str(JoinSlash(Sorted(sources)))

\* lines 34-44, on the texts of the source cells
join_unique_sources(sources) == Str(JoinSlash(Sorted(UniqueSeq(sources))))

\* the order of (country, period): by country, then by period
KeyLess(a, b) ==
  \/ StrLess(a.country.s, b.country.s)
  \/ a.country = b.country /\ a.period.n < b.period.n

RECURSIVE InsertRecord(_, _)
\* stable insertion of a record into a sequence sorted by KeyLess
InsertRecord(q, x) ==
  IF q = <<>> THEN <<x>>
  ELSE IF KeyLess(x, Head(q)) THEN <<x>> \o q
  ELSE <<Head(q)>> \o InsertRecord(Tail(q), x)

\* line 135: sort_values(['country', 'period'])
RECURSIVE SortValues(_)
SortValues(q) ==
  IF q = <<>> THEN <<>>
  ELSE InsertRecord(SortValues(SubSeq(q, 1, Len(q) - 1)), q[Len(q)])

RECURSIVE SumAmounts(_)
\* the 'sum' aggregation, in row order
SumAmounts(rows) ==
  IF rows = <<>> THEN Whole(0)
  ELSE RatAdd(SumAmounts(SubSeq(rows, 1, Len(rows) - 1)), rows[Len(rows)]["amountgel"])

\* lines 131-134: the record of one group, from its rows in frame order
AggregateGroup(rows) ==
  [country   |-> rows[1]["country"],
   period    |-> rows[1]["period"],
   amountgel |-> SumAmounts(rows),
   source    |-> join_unique_sources([i \in 1..Len(rows) |-> rows[i]["source"].s])]

\* the rows of the group of row r, in frame order
GroupOf(rows, r) ==
  LET Same(x) == x["country"] = r["country"] /\ x["period"] = r["period"]
  IN  SelectSeq(rows, Same)

\* one aggregated record per group, in order of the groups' first rows
RECURSIVE GroupsInOrder(_, _)
GroupsInOrder(rows, k) ==
  IF k = 0 THEN <<>>
  ELSE IF \E i \in 1..(k - 1) :
            /\ rows[i]["country"] = rows[k]["country"]
            /\ rows[i]["period"] = rows[k]["period"]
       THEN GroupsInOrder(rows, k - 1)
       ELSE Append(GroupsInOrder(rows, k - 1), AggregateGroup(GroupOf(rows, rows[k])))

\* lines 131-134: groupby(['country', 'period']).agg(...) gives one record
\* per group, the groups in key order
GroupByAgg(df) == SortValues(GroupsInOrder(df.rows, Len(df.rows)))

\* lines 130-137
group_and_aggregate_transfers(df) == SortValues(GroupByAgg(df))

(***************************************************************************)
(* coding_challenge.py: process_applicant_transfers                        *)
(***************************************************************************)
RECURSIVE DecimalDigits(_)
\* str(i) for i >= 0
DecimalDigits(i) ==
  IF i < 10 THEN <<48 + i>> ELSE DecimalDigits(i \div 10) \o <<48 + (i % 10)>>

\* line 173: f'Unknown_{i}'
Placeholder(i) == Str(Unknown \o <<95>> \o DecimalDigits(i))

ResultEntry(applicant_id, grouped_transfers) ==
  [applicant_id |-> applicant_id, grouped_transfers |-> grouped_transfers]

\* lines 187-189: the frame cleaned for the transfers, None, or Raise;
\* pd.DataFrame raises on a value that is not a list
CleanedFor(transfers) ==
  IF transfers.t # "list" THEN Raise
  ELSE clean_and_validate_transfers(DataFrame(transfers.l))

\* lines 186-203: the grouped transfers, or Raise
TryGroup(transfers) ==
  LET cleaned_df_ == CleanedFor(transfers)
  IN  IF cleaned_df_.t = "raise" THEN Raise
      ELSE IF cleaned_df_.t = "None" THEN List(<<>>)
      ELSE IF Empty(cleaned_df_) THEN List(<<>>)
      ELSE List(group_and_aggregate_transfers(cleaned_df_))

\* mutant: the handler logs the error and goes on without an entry
OnFailure_NoEntry(processed, applicant_id) == processed

\* mutant: the handler gives the failed applicant the groups of the entry
\* before it
OnFailure_PreviousGroups(processed, applicant_id) ==
  Append(processed,
         ResultEntry(applicant_id,
                     IF processed = <<>> THEN <<>>
                     ELSE processed[Len(processed)].grouped_transfers))

\* lines 205-210: the except clause of the applicant loop
OnFailure(processed, applicant_id) ==
  Append(processed, ResultEntry(applicant_id, <<>>))

\* lines 165-170
TrEnter ==
  /\ pc = "tr_call"
  /\ IF applicants = <<>>
     THEN /\ result' = List(<<>>)
          /\ pc' = "done"
     ELSE /\ result' = result
          /\ pc' = "tr_applicant"
  /\ processed_applicants' = <<>>
  /\ applicant_idx' = 0
  /\ UNCHANGED <<applicants, payment_idx, currency, payment_by_currency, cleaned_df>>

\* lines 172-210: one iteration of the applicant loop
TrApplicant ==
  /\ pc = "tr_applicant"
  /\ applicant_idx < Len(applicants)
  /\ LET i == applicant_idx + 1
         applicant == applicants[i]
         applicant_id == Get(applicant, "applicant_id", Placeholder(i))
         transfers == Get(applicant, "transfers", List(<<>>))
     IN  /\ applicant_idx' = i
         /\ IF ~Truthy(transfers)
            THEN /\ processed_applicants' =
                      Append(processed_applicants, ResultEntry(applicant_id, <<>>))
                 /\ cleaned_df' = None
            ELSE IF TryGroup(transfers).t = "raise"
            THEN /\ processed_applicants' = OnFailure(processed_applicants, applicant_id)
                 /\ cleaned_df' = None
            ELSE /\ processed_applicants' =
                      Append(processed_applicants,
                             ResultEntry(applicant_id, TryGroup(transfers).l))
                 /\ cleaned_df' = CleanedFor(transfers)
  /\ UNCHANGED <<applicants, pc, payment_idx, currency, payment_by_currency, result>>

\* lines 212-213
TrReturn ==
  /\ pc = "tr_applicant"
  /\ applicant_idx = Len(applicants)
  /\ result' = List(processed_applicants)
  /\ pc' = "done"
  /\ UNCHANGED <<applicants, applicant_idx, payment_idx, currency,
                 payment_by_currency, processed_applicants, cleaned_df>>

NextTransfers == TrEnter \/ TrApplicant \/ TrReturn

(***************************************************************************)
(* Inputs of the transfer pipeline                                         *)
(***************************************************************************)
TrApplicantOf(id, transfers) == Entry("applicant_id", id) @@ Entry("transfers", transfers)

TransferOf(country, period, amountgel, source) ==
  Dict(Entry("country", country) @@ Entry("period", period)
       @@ Entry("amountgel", amountgel) @@ Entry("source", source))

\* the applicants of size c (1 + the number of transfer rows); odd: transfers
\* values that are not a non-empty list
TrApplicantsOfSize(ids, pool, odd, c) ==
  {TrApplicantOf(id, transfers) :
     id \in ids,
     transfers \in IF c = 1 THEN odd \cup {List(<<>>)}
                   ELSE {List(l) : l \in [1..(c - 1) -> pool]}}

\* the applicant lists of the transfer pipeline: every list whose size
\* (applicants plus transfer rows) is at most MaxTransferBatch
IsTransferBatch(batch, ids, pool, odd) ==
  \E shape \in Shapes(MaxTransferBatch) :
    batch \in BatchesOfShape(
                [c \in 1..MaxTransferBatch |-> TrApplicantsOfSize(ids, pool, odd, c)],
                shape)

InitTransfers(ids, pool, odd) ==
  /\ IsTransferBatch(applicants, ids, pool, odd)
  /\ pc = "tr_call"
  /\ applicant_idx = 0
  /\ payment_idx = 0
  /\ currency = <<>>
  /\ payment_by_currency = <<>>
  /\ processed_applicants = <<>>
  /\ cleaned_df = None
  /\ result = None

\* text used by the inputs
GE == <<71, 69>>

ge_padded == <<103, 101, 32>>

USA == <<85, 83, 65>>

APP_001 == <<65, 80, 80, 95, 48, 48, 49>>

\* the rows of the module's own tests (src/coding_challenge.py, __main__),
\* and rows that differ from them in one field
Row_GE_1_A == TransferOf(Str(GE), Whole(1), Whole(100), Str(<<65>>))

Row_GE_1_B == TransferOf(Str(GE), Whole(1), Whole(50), Str(<<66>>))

Row_GE_1_A_75 == TransferOf(Str(GE), Whole(1), Whole(75), Str(<<65>>))

\* 'ge ', '1', '100', ' a': Row_GE_1_A once normalized
Row_ge_text ==
  TransferOf(Str(ge_padded), Str(<<49>>), Str(<<49, 48, 48>>), Str(<<32, 97>>))

\* period 1.5
Row_GE_1_5 == TransferOf(Str(GE), Num(3, 2), Whole(100), Str(<<65>>))

\* period 0.5
Row_GE_half == TransferOf(Str(GE), Num(1, 2), Whole(100), Str(<<65>>))

Row_no_source == TransferOf(Str(GE), Whole(2), Whole(150), Absent)

Row_null_source == TransferOf(Str(USA), Whole(2), Whole(100), None)

Row_blank_source == TransferOf(Str(GE), Whole(2), Whole(200), Str(<<32>>))

\* period 'two'
Row_word_period == TransferOf(Str(GE), Str(<<116, 119, 111>>), Whole(50), Str(<<67>>))

Row_negative_period == TransferOf(Str(USA), Whole(-1), Whole(100), Str(<<65>>))

Row_no_period == TransferOf(Str(USA), Absent, Whole(110), Str(<<66>>))

(***************************************************************************)
(* C2: one entry per applicant, in order, whatever fails                   *)
(***************************************************************************)
SpecTransferBatch ==
  /\ InitTransfers({Str(APP_001), None, Absent},
                   {Row_GE_1_A, Row_no_period, Row_negative_period},
                   {Absent, Whole(5)})
  /\ [][NextTransfers]_vars

C2_NoTransfers(a) ==
  \/ "transfers" \notin DOMAIN a
  \/ a.transfers.t = "list" /\ a.transfers.l = <<>>

\* the cleaning of the applicant's transfers fails: the transfers are not a
\* list, or one of the four columns is in none of the rows
C2_CleaningFails(a) ==
  /\ "transfers" \in DOMAIN a
  /\ \/ a.transfers.t # "list"
     \/ /\ a.transfers.l # <<>>
        /\ \E c \in {"country", "period", "amountgel", "source"} :
             \A j \in 1..Len(a.transfers.l) : c \notin DOMAIN a.transfers.l[j].m

\* a row with its four fields, text that is not blank and positive numbers
C2_ValidRow(m) ==
  /\ DOMAIN m = {"country", "period", "amountgel", "source"}
  /\ m.country.t = "str" /\ \E k \in 1..Len(m.country.s) : ~IsSpace(m.country.s[k])
  /\ m.source.t = "str" /\ \E k \in 1..Len(m.source.s) : ~IsSpace(m.source.s[k])
  /\ m.period.t = "num" /\ m.period.n > 0
  /\ m.amountgel.t = "num" /\ m.amountgel.n > 0

C2_HasValidRow(a) ==
  /\ "transfers" \in DOMAIN a /\ a.transfers.t = "list"
  /\ \E j \in 1..Len(a.transfers.l) : C2_ValidRow(a.transfers.l[j].m)

\* C2: the call never stops before it returns; it returns one entry per
\* applicant, entry i for applicant i; an empty applicant list gives an empty
\* list; an applicant without transfers, or whose cleaning fails, has
\* grouped_transfers = [], and the applicants after it are processed.
C2_OneEntryPerApplicant ==
  /\ pc \in {"tr_call", "tr_applicant", "done"}
  /\ pc = "tr_applicant" =>
       applicant_idx <= Len(applicants) /\ Len(processed_applicants) = applicant_idx
  /\ pc = "done" =>
       /\ result.t = "list"
       /\ Len(result.l) = Len(applicants)
       /\ \A i \in 1..Len(applicants) :
            /\ "applicant_id" \in DOMAIN applicants[i] =>
                 result.l[i].applicant_id = applicants[i].applicant_id
            /\ C2_NoTransfers(applicants[i]) \/ C2_CleaningFails(applicants[i]) =>
                 result.l[i].grouped_transfers = <<>>
            /\ C2_HasValidRow(applicants[i]) /\ ~C2_CleaningFails(applicants[i]) =>
                 result.l[i].grouped_transfers # <<>>

\* the first applicant's cleaning failed and the second one has its groups
C2_Witness ==
  /\ pc = "done"
  /\ Len(applicants) = 2
  /\ C2_CleaningFails(applicants[1])
  /\ result.l[1].grouped_transfers = <<>>
  /\ result.l[2].grouped_transfers # <<>>

(***************************************************************************)
(* C3: the applicant_id of an entry is never null                          *)
(***************************************************************************)
\* C3: an entry's applicant_id is never null: an applicant without a usable
\* applicant_id gets 'Unknown_<k>', k its position from 1; an applicant with
\* an applicant_id keeps it.
C3_IdNeverNull ==
  \A i \in 1..Len(processed_applicants) :
    /\ processed_applicants[i].applicant_id.t # "None"
    /\ IF "applicant_id" \in DOMAIN applicants[i] /\ applicants[i].applicant_id.t # "None"
       THEN processed_applicants[i].applicant_id = applicants[i].applicant_id
       ELSE processed_applicants[i].applicant_id =
              Str(<<85, 110, 107, 110, 111, 119, 110, 95>> \o DecimalDigits(i))

(***************************************************************************)
(* C7 - C10: the cleaned rows and their groups                             *)
(***************************************************************************)
SpecTransferClean ==
  /\ InitTransfers({Str(APP_001)},
                   {Row_GE_1_A, Row_GE_1_B, Row_GE_1_A_75, Row_ge_text, Row_GE_1_5,
                    Row_GE_half, Row_no_source, Row_null_source, Row_blank_source,
                    Row_word_period, Row_negative_period},
                   {})
  /\ [][NextTransfers]_vars

\* the groups of the applicant handled last
LastGrouped == processed_applicants[applicant_idx].grouped_transfers

C7_UpperTrimmed(s) ==
  /\ s = <<>> \/ (~IsSpace(s[1]) /\ ~IsSpace(s[Len(s)]))
  /\ \A i \in 1..Len(s) : s[i] \notin 97..122

\* C7: every cleaned row has a non-empty, uppercase, trimmed country, an
\* integer period >= 1, an amount > 0 and an uppercase, trimmed source; every
\* grouped record has period >= 1 and amount > 0.
C7_CleanedRowsValid ==
  cleaned_df.t = "frame" =>
    /\ \A i \in 1..Len(cleaned_df.rows) :
         LET row == cleaned_df.rows[i]
         IN  /\ row["country"].t = "str"
             /\ row["country"].s # <<>> /\ C7_UpperTrimmed(row["country"].s)
             /\ row["period"].t = "num"
             /\ row["period"].d = 1 /\ row["period"].n >= 1
             /\ row["amountgel"].t = "num" /\ row["amountgel"].n > 0
             /\ row["source"].t = "str" /\ C7_UpperTrimmed(row["source"].s)
    /\ \A k \in 1..Len(LastGrouped) :
         LastGrouped[k].period.n >= 1 /\ LastGrouped[k].amountgel.n > 0

\* C8: no two cleaned rows agree on country, period, amount and source.
C8_NoDuplicateRows ==
  cleaned_df.t = "frame" =>
    \A i, j \in 1..Len(cleaned_df.rows) :
      i < j =>
        \E c \in {"country", "period", "amountgel", "source"} :
          cleaned_df.rows[i][c] # cleaned_df.rows[j][c]

C9_Pair(r) == <<r["country"], r["period"]>>

\* the positions of the cleaned rows of a (country, period) pair
C9_RowsOf(pair) ==
  {i \in 1..Len(cleaned_df.rows) : C9_Pair(cleaned_df.rows[i]) = pair}

RECURSIVE C9_Sum(_)
C9_Sum(S) ==
  IF S = {} THEN Whole(0)
  ELSE LET i == CHOOSE x \in S : TRUE
       IN  RatAdd(cleaned_df.rows[i]["amountgel"], C9_Sum(S \ {i}))

RECURSIVE C9_SumGrouped(_)
C9_SumGrouped(k) ==
  IF k = 0 THEN Whole(0) ELSE RatAdd(C9_SumGrouped(k - 1), LastGrouped[k].amountgel)

\* the texts of S in strictly ascending order
C9_Ascending(S) ==
  CHOOSE q \in [1..Cardinality(S) -> S] :
    \A a, b \in 1..Cardinality(S) : a < b => StrLess(q[a], q[b])

C9_Before(x, y) ==
  \/ StrLess(x.country.s, y.country.s)
  \/ x.country.s = y.country.s /\ x.period.n < y.period.n

\* C9: the groups are one record per (country, period) pair of the cleaned
\* rows, strictly ascending by country then period; a record's amount is the
\* sum of its rows' amounts and its source the distinct sources of its rows,
\* ascending, joined with '/'; the amounts of the groups sum to the amounts of
\* the rows.
C9_GroupedCorrect ==
  cleaned_df.t = "frame" =>
    /\ {C9_Pair(LastGrouped[k]) : k \in 1..Len(LastGrouped)} =
         {C9_Pair(cleaned_df.rows[i]) : i \in 1..Len(cleaned_df.rows)}
    /\ \A k \in 1..(Len(LastGrouped) - 1) : C9_Before(LastGrouped[k], LastGrouped[k + 1])
    /\ \A k \in 1..Len(LastGrouped) :
         /\ LastGrouped[k].amountgel = C9_Sum(C9_RowsOf(C9_Pair(LastGrouped[k])))
         /\ LastGrouped[k].source.s =
              JoinSlash(C9_Ascending({cleaned_df.rows[i]["source"].s :
                                        i \in C9_RowsOf(C9_Pair(LastGrouped[k]))}))
    /\ C9_SumGrouped(Len(LastGrouped)) = C9_Sum(1..Len(cleaned_df.rows))

\* three rows in two groups: GE/1 sums two rows under 'A/B'
C9_Witness ==
  /\ cleaned_df.t = "frame"
  /\ Len(cleaned_df.rows) = 3
  /\ Len(LastGrouped) = 2
  /\ LastGrouped[1].amountgel = Whole(150)
  /\ LastGrouped[1].source = Str(<<65, 47, 66>>)

C10_SourceAbsent(m) ==
  \/ "source" \notin DOMAIN m
  \/ m.source.t = "None"
  \/ m.source.t = "str" /\ \A k \in 1..Len(m.source.s) : IsSpace(m.source.s[k])

C10_RestValid(m) ==
  /\ {"country", "period", "amountgel"} \subseteq DOMAIN m
  /\ m.country.t = "str" /\ \E k \in 1..Len(m.country.s) : ~IsSpace(m.country.s[k])
  /\ m.period.t = "num" /\ m.period.n > 0
  /\ m.amountgel.t = "num" /\ m.amountgel.n > 0

\* C10: a row of the applicant handled last whose source is absent and whose
\* other fields are valid is among the cleaned rows with source 'UNKNOWN',
\* and its (country, period) pair is among the groups.
C10_MissingSourceKept ==
  pc = "tr_applicant" /\ applicant_idx >= 1 =>
    \A j \in 1..Len(applicants[applicant_idx].transfers.l) :
      LET m == applicants[applicant_idx].transfers.l[j].m
      IN  C10_SourceAbsent(m) /\ C10_RestValid(m) =>
            /\ cleaned_df.t = "frame"
            /\ \E i \in 1..Len(cleaned_df.rows) :
                 /\ cleaned_df.rows[i]["source"] = Str(<<85, 78, 75, 78, 79, 87, 78>>)
                 /\ cleaned_df.rows[i]["amountgel"] = m.amountgel
                 /\ \E k \in 1..Len(LastGrouped) :
                      C9_Pair(LastGrouped[k]) = C9_Pair(cleaned_df.rows[i])

(***************************************************************************)
(* C11: which rows the cleaning drops                                      *)
(***************************************************************************)
\* rows of test no. 7 and test no. 9, and a row whose period is float('inf')
Row_zero_amount == TransferOf(Str(USA), Whole(1), Whole(0), Str(<<65>>))

Row_word_amount == TransferOf(Str(USA), Whole(3), Str(Words), Str(<<65>>))

Row_blank_country == TransferOf(Str(<<>>), Whole(1), Whole(100), Str(<<65>>))

Row_inf_period == TransferOf(Str(GE), Inf, Whole(100), Str(<<65>>))

SpecTransferRows ==
  /\ InitTransfers({Str(APP_001)},
                   {Row_GE_1_A, Row_ge_text, Row_GE_1_B, Row_no_source, Row_no_period,
                    Row_word_period, Row_negative_period, Row_zero_amount,
                    Row_word_amount, Row_blank_country, Row_inf_period},
                   {})
  /\ [][NextTransfers]_vars

\* the value of a key is absent: no key, null, or blank text
C11_Absent(m, key) ==
  \/ key \notin DOMAIN m
  \/ m[key].t = "None"
  \/ m[key].t = "str" /\ \A k \in 1..Len(m[key].s) : IsSpace(m[key].s[k])

\* the number a present value coerces to, or a value that is no number
C11_Coerced(v) == IF v.t = "str" THEN ParseNumber(v.s) ELSE v

C11_IsNumber(x) == x.t \in {"num", "inf"}

\* the rules of the claim, duplicates apart
C11_Passes(m) ==
  /\ \A key \in {"country", "period", "amountgel"} : ~C11_Absent(m, key)
  /\ C11_IsNumber(C11_Coerced(m.period)) /\ Positive(C11_Coerced(m.period))
  /\ C11_IsNumber(C11_Coerced(m.amountgel)) /\ Positive(C11_Coerced(m.amountgel))

C11_Source(m) ==
  IF C11_Absent(m, "source") THEN <<85, 78, 75, 78, 79, 87, 78>>
  ELSE Strip(Upper(m.source.s))

\* two passing rows that are the same record once normalized
C11_Same(a, b) ==
  /\ Strip(Upper(a.country.s)) = Strip(Upper(b.country.s))
  /\ C11_Coerced(a.period) = C11_Coerced(b.period)
  /\ C11_Coerced(a.amountgel) = C11_Coerced(b.amountgel)
  /\ C11_Source(a) = C11_Source(b)

\* the positions of the rows that the claim keeps
C11_Kept(l) ==
  {j \in 1..Len(l) :
     /\ C11_Passes(l[j].m)
     /\ ~\E i \in 1..(j - 1) : C11_Passes(l[i].m) /\ C11_Same(l[i].m, l[j].m)}

\* a kept row as the cleaned frame holds it
C11_Final(m) ==
  [c \in {"country", "period", "amountgel", "source"} |->
     CASE c = "country"   -> Str(Strip(Upper(m.country.s)))
       [] c = "period"    -> AsInt(C11_Coerced(m.period))
       [] c = "amountgel" -> C11_Coerced(m.amountgel)
       [] c = "source"    -> Str(C11_Source(m))]

RECURSIVE C11_Expected(_, _)
\* the kept rows among the first k, in input order
C11_Expected(l, k) ==
  IF k = 0 THEN <<>>
  ELSE IF k \in C11_Kept(l) THEN Append(C11_Expected(l, k - 1), C11_Final(l[k].m))
  ELSE C11_Expected(l, k - 1)

C11_CleanedCount == IF cleaned_df.t = "frame" THEN Len(cleaned_df.rows) ELSE 0

\* C11: the cleaned rows of the applicant handled last are exactly its input
\* rows that pass the rules (country, period and amount present, period and
\* amount numbers > 0, not a duplicate of a kept row), in input order: no
\* dropped row takes a passing row with it.
C11_RowsDroppedExactly ==
  pc = "tr_applicant" /\ applicant_idx >= 1 =>
    LET l == applicants[applicant_idx].transfers.l
    IN  /\ C11_CleanedCount = Cardinality(C11_Kept(l))
        /\ cleaned_df.t = "frame" => cleaned_df.rows = C11_Expected(l, Len(l))

\* the same, for the lists in which some row carries a source key and no
\* passing row has a period that is not finite
C11_RowsDroppedExactlyWhenCleaningCompletes ==
  pc = "tr_applicant" /\ applicant_idx >= 1 =>
    LET l == applicants[applicant_idx].transfers.l
    IN  /\ \E j \in 1..Len(l) : "source" \in DOMAIN l[j].m
        /\ \A j \in C11_Kept(l) : C11_Coerced(l[j].m.period).t = "num"
        => /\ C11_CleanedCount = Cardinality(C11_Kept(l))
           /\ cleaned_df.t = "frame" => cleaned_df.rows = C11_Expected(l, Len(l))

\* a negative period, a period that is not a number and a passing row: only
\* the passing row is cleaned
C11_Witness ==
  /\ pc = "tr_applicant" /\ applicant_idx >= 1
  /\ applicants[applicant_idx].transfers.l = <<Row_negative_period, Row_GE_1_A, Row_word_period>>
  /\ cleaned_df.t = "frame" /\ Len(cleaned_df.rows) = 1

(***************************************************************************)
(* C12: the order of the applicants, payments and transfers                *)
(***************************************************************************)
RECURSIVE PaymentLoop(_, _, _, _)
\* lines 81-136: the totals after the first k payments of an applicant
PaymentLoop(totals, cur, payments, k) ==
  IF k = 0 THEN totals
  ELSE ProcessPayment(PaymentLoop(totals, cur, payments, k - 1), cur, payments[k])

RECURSIVE ApplicantLoop(_, _)
\* lines 68-136: the totals (as a dict) after the first k applicants, or Raise
ApplicantLoop(apps, k) ==
  IF k = 0 THEN Dict(<<>>)
  ELSE LET before == ApplicantLoop(apps, k - 1)
           applicant == apps[k]
       IN  IF before.t = "raise" THEN Raise
           ELSE IF ~CurrencyIsText(applicant) THEN Raise
           ELSE IF ~Truthy(Payments(applicant)) THEN before
           ELSE IF Payments(applicant).t # "list" THEN Raise
           ELSE Dict(PaymentLoop(before.m, NormalizeCurrency(applicant),
                                 Payments(applicant).l, Len(Payments(applicant).l)))

\* lines 50-138 as a function of the applicant list: the returned dict, or Raise
calculate_payments_modified(apps) ==
  IF apps = <<>> THEN Dict(<<>>) ELSE ApplicantLoop(apps, Len(apps))

\* the rearrangements of a sequence
C12_Rearranged(q) ==
  IF q = <<>> THEN {<<>>}
  ELSE {[i \in 1..Len(q) |-> q[p[i]]] : p \in Permutations(1..Len(q))}

\* an applicant with its payments (or transfers) rearranged
C12_Variants(applicant, key) ==
  IF key \in DOMAIN applicant /\ applicant[key].t = "list"
  THEN {[applicant EXCEPT ![key] = List(l)] : l \in C12_Rearranged(applicant[key].l)}
  ELSE {applicant}

RECURSIVE C12_Choices(_)
\* the sequences that take their i-th element from the i-th set
C12_Choices(sets) ==
  IF sets = <<>> THEN {<<>>}
  ELSE {<<x>> \o rest : x \in Head(sets), rest \in C12_Choices(Tail(sets))}

\* the applicant lists that are apps with the applicants rearranged and the
\* payments rearranged inside each applicant
C12_Reorderings(apps) ==
  IF apps = <<>> THEN {<<>>}
  ELSE UNION {C12_Choices([i \in 1..Len(apps) |-> C12_Variants(apps[p[i]], "payments")]) :
                p \in Permutations(1..Len(apps))}

\* what a call of the payment calculator that has ended gave
C12_Outcome == IF pc = "raised" THEN Raise ELSE result

\* the groups that the pipeline returns for a transfers value
C12_Grouped(transfers) ==
  IF ~Truthy(transfers) THEN <<>>
  ELSE IF TryGroup(transfers).t = "raise" THEN <<>>
  ELSE TryGroup(transfers).l

SpecOrder ==
  /\ \/ InitPay({Str(USD), Str(usd), Absent},
                {Pay_valid, Pay_strings, Pay_zero_share, Pay_zero_base, Pay_big_share},
                {Whole(5)})
     \/ InitTransfers({Str(APP_001)},
                      {Row_GE_1_A, Row_GE_1_B, Row_ge_text, Row_GE_1_5, Row_null_source},
                      {})
  /\ [][NextPay \/ NextTransfers]_vars

\* C12: a call of the payment calculator gives the same outcome (the same
\* keys with the same totals) for every rearrangement of the applicants and of
\* the payments inside each applicant; an applicant's grouped_transfers are
\* the same for every rearrangement of its transfers.
C12_OrderIndependent ==
  /\ pc = "raised" \/ (pc = "done" /\ result.t = "dict") =>
       \A q \in C12_Reorderings(applicants) :
         calculate_payments_modified(q) = C12_Outcome
  /\ pc = "tr_applicant" /\ applicant_idx >= 1 =>
       \A v \in C12_Variants(applicants[applicant_idx], "transfers") :
         C12_Grouped(Get(v, "transfers", List(<<>>))) = LastGrouped

\* a call returned totals, and two applicants in the other order, with different
\* payments into one currency, give the same totals
C12_Witness ==
  /\ pc = "done" /\ result.t = "dict"
  /\ Len(applicants) = 2
  /\ DOMAIN result.m = {USD}
  /\ Payments(applicants[1]) = List(<<Pay_valid>>)
  /\ Payments(applicants[2]) = List(<<Pay_strings>>)
  /\ calculate_payments_modified(<<applicants[2], applicants[1]>>) = result

\* three rows of two groups were grouped, and the rows in reverse order give
\* the same groups
C12_WitnessTransfers ==
  /\ pc = "tr_applicant" /\ applicant_idx >= 1
  /\ applicants[applicant_idx].transfers.l = <<Row_null_source, Row_GE_1_B, Row_GE_1_A>>
  /\ Len(LastGrouped) = 2
  /\ C12_Grouped(List(<<Row_GE_1_A, Row_GE_1_B, Row_null_source>>)) = LastGrouped

(***************************************************************************)
(* C13: the running totals of the payment loop                             *)
(***************************************************************************)
SpecPayLoop ==
  /\ InitPay({Str(USD), Str(usd), Absent},
             {Pay_valid, Pay_strings, Pay_zero_share, Pay_inactive,
              Pay_negative_amount, Pay_nan_amount},
             {None})
  /\ [][NextPay]_vars

\* what the claim says of one step of the call
C13_Step ==
  /\ \A c \in DOMAIN payment_by_currency' :
       RatLeq(Whole(0), payment_by_currency'[c])
  /\ pc = "pay_payment" =>
       /\ DOMAIN payment_by_currency \subseteq DOMAIN payment_by_currency'
       /\ \A c \in DOMAIN payment_by_currency' \ {currency} :
            /\ c \in DOMAIN payment_by_currency
            /\ payment_by_currency'[c] = payment_by_currency[c]
       /\ currency \in DOMAIN payment_by_currency =>
            RatLeq(payment_by_currency[currency], payment_by_currency'[currency])

\* C13: after every step of the call every running total is >= 0, and a
\* payment step keeps the keys, changes no entry but that of the current
\* applicant's currency, and does not decrease that entry.
C13_TotalsNeverDecrease == [][C13_Step]_vars

\* the same for the calls without a nan
C13_TotalsNeverDecreaseWithoutNan == [][C4_NoNan => C13_Step]_vars

\* a second currency has been added beside a positive total, without a nan
C13_Witness ==
  /\ pc \in {"pay_payment", "pay_applicant"}
  /\ C4_NoNan
  /\ DOMAIN payment_by_currency = {USD, GEL}
  /\ payment_by_currency[USD] = Whole(400)
  /\ payment_by_currency[GEL] = Whole(800)

(***************************************************************************)
(* C14: calculate_payments_original against calculate_payments_modified    *)
(***************************************************************************)
\* line 37: str(app.get('currency', 'GEL')).upper(), for text and for None
OriginalCurrency(app) ==
  LET c == Get(app, "currency", Str(GEL))
  IN  CASE c.t = "str"  -> Upper(c.s)
        [] c.t = "None" -> <<78, 79, 78, 69>>

\* lines 40-45: one payment; the totals as a dict, or Raise.  Nothing is
\* caught: a payment that is no mapping (AttributeError), a value that float()
\* rejects (TypeError, ValueError, OverflowError), a base that is None or text
\* (TypeError at the division), 0 (ZeroDivisionError) or beyond the range of
\* float (OverflowError) end the call.
OriginalPayment(totals, cur, pay) ==
  IF pay.t # "dict" THEN Raise
  ELSE IF ~Truthy(Get(pay.m, "active", Bool(TRUE))) THEN Dict(totals)
  ELSE LET share_value == Get(pay.m, "incomeshare", None)
           incomeshare == Float(IF Truthy(share_value) THEN share_value ELSE Whole(1))
           base        == Get(pay.m, "base", None)
           amount      == Float(Get(pay.m, "amount", Whole(0)))
       IN  IF incomeshare.t = "None" THEN Raise
           ELSE IF base.t \notin {"num", "nan", "bool"} THEN Raise
           ELSE IF Float(base).t = "num" /\ Float(base).n = 0 THEN Raise
           ELSE IF amount.t = "None" THEN Raise
           ELSE Dict([c \in DOMAIN totals \cup {cur} |->
                        IF c = cur
                        THEN RatAdd(IF cur \in DOMAIN totals THEN totals[cur] ELSE Whole(0),
                                    RatMul(amount, RatDiv(incomeshare, Float(base))))
                        ELSE totals[c]])

RECURSIVE OriginalPaymentLoop(_, _, _, _)
\* lines 39-45: the totals after the first k payments of an applicant, or Raise
OriginalPaymentLoop(totals, cur, payments, k) ==
  IF k = 0 THEN Dict(totals)
  ELSE LET before == OriginalPaymentLoop(totals, cur, payments, k - 1)
       IN  IF before.t = "raise" THEN Raise
           ELSE OriginalPayment(before.m, cur, payments[k])

RECURSIVE OriginalApplicantLoop(_, _)
\* lines 36-45: the totals after the first k applicants, or Raise; payments
\* that are not a list (None where the key is absent) cannot be iterated
OriginalApplicantLoop(apps, k) ==
  IF k = 0 THEN Dict(<<>>)
  ELSE LET before   == OriginalApplicantLoop(apps, k - 1)
           payments == Get(apps[k], "payments", None)
       IN  IF before.t = "raise" THEN Raise
           ELSE IF payments.t # "list" THEN Raise
           ELSE OriginalPaymentLoop(before.m, OriginalCurrency(apps[k]),
                                    payments.l, Len(payments.l))

\* lines 34-47 as a function of the applicant list: the returned dict, or Raise
calculate_payments_original(apps) == OriginalApplicantLoop(apps, Len(apps))

\* base 10**400, amount 10**400
Pay_huge_base == PaymentOf(Bool(TRUE), Num(1, 5), Whole(100), Huge)

Pay_huge_amount == PaymentOf(Bool(TRUE), Num(1, 5), Huge, Num(1, 2))

\* incomeshare 1, amount 0
Pay_full_share == PaymentOf(Bool(TRUE), Whole(1), Whole(0), Whole(2))

SpecPayEquiv ==
  /\ InitPay({Str(USD), Str(GEL), Str(usd), Absent},
             {Pay_valid, Pay_inactive, Pay_full_share, Pay_zero_share, Pay_blank_active,
              Pay_strings, Pay_huge_base, Pay_huge_amount},
             {None})
  /\ [][NextPay]_vars

\* the well-formed payments of the claim: a boolean active, a numeric
\* incomeshare in (0, 1], a numeric base > 0, a numeric amount >= 0
C14_WellFormedPayment(p) ==
  /\ p.t = "dict"
  /\ {"active", "incomeshare", "base", "amount"} \subseteq DOMAIN p.m
  /\ p.m.active.t = "bool"
  /\ p.m.incomeshare.t = "num"
  /\ p.m.incomeshare.n > 0 /\ p.m.incomeshare.n <= p.m.incomeshare.d
  /\ p.m.base.t = "huge" \/ (p.m.base.t = "num" /\ p.m.base.n > 0)
  /\ p.m.amount.t = "huge" \/ (p.m.amount.t = "num" /\ p.m.amount.n >= 0)

\* a present, non-empty, uppercase, trimmed currency and a list of payments
C14_WellFormedApplicant(a) ==
  /\ {"currency", "payments"} \subseteq DOMAIN a
  /\ a.currency.t = "str"
  /\ a.currency.s # <<>>
  /\ Upper(a.currency.s) = a.currency.s
  /\ Strip(a.currency.s) = a.currency.s
  /\ a.payments.t = "list"
  /\ \A j \in 1..Len(a.payments.l) : C14_WellFormedPayment(a.payments.l[j])

C14_WellFormed == \A i \in 1..Len(applicants) : C14_WellFormedApplicant(applicants[i])

\* every base and amount of a well-formed call is within the range of float
C14_InFloatRange ==
  \A i \in 1..Len(applicants) :
    \A j \in 1..Len(applicants[i].payments.l) :
      /\ applicants[i].payments.l[j].m.base.t = "num"
      /\ applicants[i].payments.l[j].m.amount.t = "num"

\* the call of calculate_payments_original on the same applicants gives what
\* the call that has ended gave
C14_SameAsOriginal ==
  LET original == calculate_payments_original(applicants)
  IN  /\ original.t = C12_Outcome.t
      /\ original.t = "dict" => original.m = C12_Outcome.m

\* C14 as stated: on every well-formed applicant list the original and the
\* modified calculator return the same map.
C14_OriginalEqualsModified ==
  pc \in {"done", "raised"} /\ C14_WellFormed => C14_SameAsOriginal

\* C14, amended: on every well-formed applicant list whose bases and amounts
\* are within the range of float, the original and the modified calculator
\* return the same map.
C14_OriginalEqualsModifiedInFloatRange ==
  pc \in {"done", "raised"} /\ C14_WellFormed /\ C14_InFloatRange => C14_SameAsOriginal

\* a well-formed call with an active and an inactive payment returned
\* {'USD': 400.0}, as the original does
C14_Witness ==
  /\ pc = "done"
  /\ C14_WellFormed /\ C14_InFloatRange
  /\ Len(applicants) = 2
  /\ Payments(applicants[1]) = List(<<Pay_valid, Pay_inactive>>)
  /\ result = Dict(USD :> Whole(400))
  /\ calculate_payments_original(applicants) = result

\* outside the well-formed lists the two differ: an explicit incomeshare of 0
C14_WitnessDiffer ==
  /\ pc = "done"
  /\ Len(applicants) = 1
  /\ Payments(applicants[1]) = List(<<Pay_zero_share>>)
  /\ ~C14_SameAsOriginal

(***************************************************************************)
(* C15: an applicant's groups depend on its own transfers only             *)
(***************************************************************************)
RECURSIVE TransferLoop(_, _)
\* lines 170-210: processed_applicants after the first k applicants
TransferLoop(apps, k) ==
  IF k = 0 THEN <<>>
  ELSE LET processed    == TransferLoop(apps, k - 1)
           applicant_id == Get(apps[k], "applicant_id", Placeholder(k))
           transfers    == Get(apps[k], "transfers", List(<<>>))
       IN  IF ~Truthy(transfers)
           THEN Append(processed, ResultEntry(applicant_id, <<>>))
           ELSE IF TryGroup(transfers).t = "raise"
           THEN OnFailure(processed, applicant_id)
           ELSE Append(processed, ResultEntry(applicant_id, TryGroup(transfers).l))

\* lines 144-213 as a function of the applicant list
process_applicant_transfers(apps) ==
  IF apps = <<>> THEN <<>> ELSE TransferLoop(apps, Len(apps))

SpecTransferIndependent ==
  /\ InitTransfers({Str(APP_001), Absent},
                   {Row_GE_1_A, Row_GE_1_B, Row_null_source, Row_no_source, Row_inf_period},
                   {Whole(5)})
  /\ [][NextTransfers]_vars

\* the entry of an applicant processed alone
C15_Alone(applicant) == process_applicant_transfers(<<applicant>>)[1]

\* C15: the grouped_transfers of every entry are those of its applicant
\* processed alone, whatever the other applicants of the list are; its
\* applicant_id is the applicant's own, and only the placeholder of a missing
\* applicant_id holds the position in the list.
C15_GroupsOfOwnTransfers ==
  /\ \A i \in 1..Len(processed_applicants) :
       /\ processed_applicants[i].grouped_transfers =
            C15_Alone(applicants[i]).grouped_transfers
       /\ processed_applicants[i].applicant_id =
            IF "applicant_id" \in DOMAIN applicants[i]
            THEN C15_Alone(applicants[i]).applicant_id
            ELSE Placeholder(i)
  /\ pc = "done" => result.l = process_applicant_transfers(applicants)

\* the first applicant's cleaning fails; the second, without an applicant_id,
\* has the groups it has alone, and 'Unknown_2' where alone it has 'Unknown_1'
C15_Witness ==
  /\ pc = "done"
  /\ Len(applicants) = 2
  /\ TryGroup(Get(applicants[1], "transfers", List(<<>>))).t = "raise"
  /\ result.l[1].grouped_transfers = <<>>
  /\ "applicant_id" \notin DOMAIN applicants[2]
  /\ result.l[2].grouped_transfers # <<>>
  /\ result.l[2].grouped_transfers = C15_Alone(applicants[2]).grouped_transfers
  /\ result.l[2].applicant_id = Placeholder(2)
  /\ C15_Alone(applicants[2]).applicant_id = Placeholder(1)

=============================================================================
